---- MODULE Spec2Model ----
\* Model of the checkers-bot-tournament game engine (game.py) and of the
\* tournament controller (controller.py).
EXTENDS Integers, Sequences, FiniteSets, TLC

\* ---------------------------------------------------------------------------
\* Bounds of the model
\* ---------------------------------------------------------------------------
\* Half the board size: the board is N x N with N = 2 * BoardHalf.
BoardHalf == 2
\* Number of opening plies in which a bot may answer with any legal index.
FreePlies == 1
\* Largest number of tokens read from a seed file.
MaxSeedLen == 2
\* A seed token names one of the first MaxSeedMoves legal moves of a colour.
MaxSeedMoves == 2
\* A game in progress is exported only during its first MaxExportPlies plies
\* (a finished game is exported whatever its length).
MaxExportPlies == 2

\* The codec is exercised on boards of size 2, 4, ..., 2 * MaxCodecHalf.
MaxCodecHalf == 4
\* A tournament has at most MaxBots entries in its bot list, at most
\* MaxRounds rounds, and at most MaxGames games in all.
MaxBots == 2
MaxRounds == 2
MaxGames == 4

\* ---------------------------------------------------------------------------
\* Program constants
\* ---------------------------------------------------------------------------
AUTO_DRAW_MOVECOUNT == 40 * 2

WHITE == "WHITE"
BLACK == "BLACK"
DRAW == "DRAW"
None == "None"
Colour == {WHITE, BLACK}

\* Mutant of swap_turn: the turn stays with the same colour.
swap_turn_Same(c) == c

\* Colour.get_opposite
get_opposite(c) == IF c = WHITE THEN BLACK ELSE WHITE

\* ---------------------------------------------------------------------------
\* Board (board.size, the grid, move generation, move application)
\* ---------------------------------------------------------------------------
size == 2 * BoardHalf
NumSquares == BoardHalf * size

EMPTY == "."
Pieces == {"w", "W", "b", "B"}

PieceColour(p) == IF p \in {"w", "W"} THEN WHITE ELSE BLACK
IsKing(p) == p \in {"W", "B"}
King(c) == IF c = WHITE THEN "W" ELSE "B"

\* The playable (dark) cells, numbered row-major from the top.
CellAt(i) ==
    LET r == (i - 1) \div BoardHalf
    IN  <<r, 2 * ((i - 1) % BoardHalf) + (IF r % 2 = 0 THEN 1 ELSE 0)>>
CellSeq == [i \in 1..NumSquares |-> CellAt(i)]
Cells == {CellSeq[i] : i \in 1..NumSquares}

\* Standard initial position: BLACK on the top rows, WHITE on the bottom rows,
\* the two middle rows empty.
InitBoard ==
    [cell \in Cells |->
        IF cell[1] < BoardHalf - 1 THEN "b"
        ELSE IF cell[1] > BoardHalf THEN "w"
        ELSE EMPTY]

\* Move value type: start, end, ordered list of captured cells.
Move(start, end, removed) == [start |-> start, end |-> end, removed |-> removed]

\* Directions a piece may travel in: men forward only, kings any diagonal.
Dirs(p) ==
    IF IsKing(p) THEN <<(<<-1, -1>>), (<<-1, 1>>), (<<1, -1>>), (<<1, 1>>)>>
    ELSE IF p = "w" THEN <<(<<-1, -1>>), (<<-1, 1>>)>>
    ELSE <<(<<1, -1>>), (<<1, 1>>)>>

Step(pos, d, k) == <<pos[1] + k * d[1], pos[2] + k * d[2]>>
InSeq(x, s) == \E i \in 1..Len(s) : s[i] = x

\* The concatenation of a sequence of sequences.
RECURSIVE Concat(_)
Concat(ss) == IF ss = <<>> THEN <<>> ELSE Head(ss) \o Concat(Tail(ss))
Flatten(ss) == CHOOSE list \in {Concat(s) : s \in {ss}} : TRUE

\* One diagonal step onto an empty cell.
SimpleMoves(b, pos) ==
    LET ds == SelectSeq(Dirs(b[pos]),
                  LAMBDA d : Step(pos, d, 1) \in Cells /\ b[Step(pos, d, 1)] = EMPTY)
    IN  [i \in 1..Len(ds) |-> Move(pos, Step(pos, ds[i], 1), <<>>)]

\* A jump over an adjacent enemy piece (not yet taken in this chain) onto an
\* empty cell.
CanJump(b, p, start, pos, removed, d) ==
    LET mid == Step(pos, d, 1)
        land == Step(pos, d, 2)
    IN  /\ mid \in Cells
        /\ land \in Cells
        /\ b[mid] # EMPTY
        /\ PieceColour(b[mid]) # PieceColour(p)
        /\ ~InSeq(mid, removed)
        /\ (b[land] = EMPTY \/ land = start)

\* Every maximal chain of jumps of piece p standing on pos; a chain is one
\* Move whose removed list has one entry per jump, in jump order.
RECURSIVE JumpChains(_, _, _, _, _)
JumpChains(b, p, start, pos, removed) ==
    LET ds == SelectSeq(Dirs(p), LAMBDA d : CanJump(b, p, start, pos, removed, d))
    IN  IF ds = <<>>
        THEN IF removed = <<>> THEN <<>> ELSE <<Move(start, pos, removed)>>
        ELSE Flatten([i \in 1..Len(ds) |->
                 JumpChains(b, p, start, Step(pos, ds[i], 2),
                            Append(removed, Step(pos, ds[i], 1)))])

\* Board.get_move_list: the legal moves of colour, in a stable order.
get_move_list(b, colour) ==
    Flatten([i \in 1..NumSquares |->
        LET pos == CellSeq[i]
        IN  IF b[pos] # EMPTY /\ PieceColour(b[pos]) = colour
            THEN SimpleMoves(b, pos) \o JumpChains(b, b[pos], pos, pos, <<>>)
            ELSE <<>>])

\* Board.is_valid_move
is_valid_move(b, colour, move) == InSeq(move, get_move_list(b, colour))

FarthestRow(c) == IF c = WHITE THEN 0 ELSE size - 1

\* Board.move_piece: the new grid, the number of pieces removed and whether
\* the moved piece was promoted.
board_move_piece(b, move) ==
    LET p == b[move.start]
        promoted == ~IsKing(p) /\ move.end[1] = FarthestRow(PieceColour(p))
        placed == IF promoted THEN King(PieceColour(p)) ELSE p
    IN  [board |-> [cell \in Cells |->
                       IF cell = move.end THEN placed
                       ELSE IF cell = move.start \/ InSeq(cell, move.removed) THEN EMPTY
                       ELSE b[cell]],
         captures |-> Len(move.removed),
         promotion |-> promoted]


\* ---------------------------------------------------------------------------
\* Notation codec
\* ---------------------------------------------------------------------------
\* A token is a string; it is modelled as the sequence of its lexical parts,
\* each either a decimal number or one of the separator characters.
Num(n) == [sep |-> "", num |-> n]
Sep(s) == [sep |-> s, num |-> 0]

\* Mutant of pdn_to_coordinates: the column offset of even rows on every row.
pdn_to_coordinates_NoParity(sz, square_num) ==
    LET row == (square_num - 1) \div (sz \div 2)
        col == ((square_num - 1) % (sz \div 2)) * 2 + 1
    IN  <<row, col>>

\* Game._pdn_to_coordinates for a board of size sz.
pdn_to_coordinates(sz, square_num) ==
    LET row == (square_num - 1) \div (sz \div 2)
        col == ((square_num - 1) % (sz \div 2)) * 2 + (IF row % 2 = 0 THEN 1 ELSE 0)
    IN  <<row, col>>

\* Game._coordinates_to_pdn for a board of size sz.
coordinates_to_pdn(sz, coord) ==
    coord[1] * (sz \div 2) + (coord[2] \div 2) + 1

\* Mutant of get_removed_position: the captured cell is taken to be the start.
get_removed_position_Start(start, end) == start

\* Game._get_removed_position
get_removed_position(start, end) ==
    <<(start[1] + end[1]) \div 2, (start[2] + end[2]) \div 2>>

\* "x" in move, "-" in move
Contains(token, s) == \E i \in 1..Len(token) : token[i].sep = s

\* str.split(s): the parts of the token between the occurrences of s.
RECURSIVE Split(_, _)
Split(token, s) ==
    IF ~Contains(token, s) THEN <<token>>
    ELSE LET i == CHOOSE k \in 1..Len(token) :
                      /\ token[k].sep = s
                      /\ \A j \in 1..(k - 1) : token[j].sep # s
         IN  <<SubSeq(token, 1, i - 1)>> \o Split(SubSeq(token, i + 1, Len(token)), s)

\* int(pdn) succeeds on a part that is one decimal number.
IsInt(part) == Len(part) = 1 /\ part[1].sep = ""

\* Mutant of ParseToken: the else branch that rejects a token without a
\* separator is missing, so start and end are unbound when they are read.
ParseToken_NoFormatCheck(token) ==
    LET s == IF Contains(token, "-") THEN "-" ELSE "x"
        parts == Split(token, s)
    IN  IF ~Contains(token, "-") /\ ~Contains(token, "x")
        THEN [ok |-> FALSE, kind |-> "UnboundLocalError"]
        ELSE IF Len(parts) # 2 \/ ~IsInt(parts[1]) \/ ~IsInt(parts[2])
        THEN [ok |-> FALSE, kind |-> "ValueError"]
        ELSE LET start_pos == pdn_to_coordinates(size, parts[1][1].num)
                 end_pos == pdn_to_coordinates(size, parts[2][1].num)
                 removed_pos == IF Contains(token, "x")
                                THEN <<get_removed_position(start_pos, end_pos)>>
                                ELSE <<>>
             IN  [ok |-> TRUE, move |-> Move(start_pos, end_pos, removed_pos)]

\* The parsing of one token in import_pdn (lines 78-89): the Move object built
\* from it, or the exception raised: the format error for a token with
\* neither separator, the ValueError of the unpacking or of int() otherwise.
ParseToken(token) ==
    LET s == IF Contains(token, "-") THEN "-" ELSE "x"
        parts == Split(token, s)
    IN  IF ~Contains(token, "-") /\ ~Contains(token, "x")
        THEN [ok |-> FALSE, kind |-> "ValueError: Invalid move format"]
        ELSE IF Len(parts) # 2 \/ ~IsInt(parts[1]) \/ ~IsInt(parts[2])
        THEN [ok |-> FALSE, kind |-> "ValueError"]
        ELSE LET start_pos == pdn_to_coordinates(size, parts[1][1].num)
                 end_pos == pdn_to_coordinates(size, parts[2][1].num)
                 removed_pos == IF Contains(token, "x")
                                THEN <<get_removed_position(start_pos, end_pos)>>
                                ELSE <<>>
             IN  [ok |-> TRUE, move |-> Move(start_pos, end_pos, removed_pos)]

\* Lines 161-166 of Game.export_pdn: the token of one move of the history.
ExportToken(move) ==
    LET start == coordinates_to_pdn(size, move.start)
        end == coordinates_to_pdn(size, move.end)
    IN  IF move.removed # <<>>
        THEN <<Num(start), Sep("x"), Num(end)>>
        ELSE <<Num(start), Sep("-"), Num(end)>>

\* " ".join(pdn_moves) (line 169)
RECURSIVE Join(_)
Join(tokens) ==
    IF tokens = <<>> THEN <<>>
    ELSE IF Len(tokens) = 1 THEN tokens[1]
    ELSE tokens[1] \o <<Sep(" ")>> \o Join(Tail(tokens))

\* Mutant of export_pdn: every move is written with "-".
export_pdn_NoCapture(history) ==
    Join([i \in 1..Len(history) |->
            <<ExportToken(history[i])[1], Sep("-"), ExportToken(history[i])[3]>>])

\* Game.export_pdn (lines 151-176): the content written or returned.
export_pdn(history) == Join([i \in 1..Len(history) |-> ExportToken(history[i])])

\* pdn_content.split() (line 73): the parts between the spaces.
split_whitespace(content) ==
    SelectSeq(Split(content, " "), LAMBDA part : part # <<>>)


\* ---------------------------------------------------------------------------
\* Bots and seed files (the inputs of a game)
\* ---------------------------------------------------------------------------
BotKinds == {"FirstMover", "LastMover"}

\* What a bot may do to the PlayMoveInfo it is handed before it answers.
BotMutations ==
    {"none", "clear_board", "clear_move_list", "reverse_move_list",
     "clear_move_history", "extend_move_history"}

Reply(i, mutation) == [idx |-> i, mutation |-> mutation]

\* The answers bot.play_move may give when offered n moves after `played`
\* plies: an index, together with what the bot did to its snapshot.  During
\* the opening any legal index and any mutation; afterwards the bot's own
\* policy; and at any time the two nearest out-of-range indices.
play_move(bot, n, played) ==
    (IF played < FreePlies
     THEN {Reply(i, m) : <<i, m>> \in (0..(n - 1)) \X BotMutations}
     ELSE IF bot = "FirstMover" THEN {Reply(0, "clear_board")}
     ELSE {Reply(n - 1, "reverse_move_list"), Reply(n - 1, "extend_move_history")})
    \cup {Reply(-1, "none"), Reply(n, "clear_move_list")}

\* The number of the playable cell `cell` in CellSeq.
SquareOf(cell) == CHOOSE i \in 1..NumSquares : CellSeq[i] = cell

\* Tokens that are wrong on any board: malformed ones, square numbers outside
\* the board, and a move that goes nowhere.
BadTokens ==
    {<<Num(1)>>, <<Num(1), Sep("-")>>,
     <<Num(1), Sep("x"), Num(2), Sep("x"), Num(3)>>,
     <<Num(1), Sep("-"), Num(2), Sep("x"), Num(3)>>,
     <<Num(0), Sep("-"), Num(1)>>,
     <<Num(NumSquares), Sep("-"), Num(NumSquares + 1)>>,
     <<Num(1), Sep("-"), Num(1)>>,
     <<Num(NumSquares), Sep("x"), Num(1)>>}

FirstMoves(list) == SubSeq(list, 1, IF Len(list) < MaxSeedMoves THEN Len(list) ELSE MaxSeedMoves)

\* The tokens the next position of a seed file may hold when the replay has
\* reached grid b: the start and end squares of the first legal moves of
\* either colour, written with either separator, and the tokens of BadTokens.
SeedTokens(b) ==
    LET moves == FirstMoves(get_move_list(b, WHITE)) \o FirstMoves(get_move_list(b, BLACK))
    IN  {<<Num(SquareOf(moves[i].start)), Sep(s), Num(SquareOf(moves[i].end))>> :
            <<i, s>> \in (1..Len(moves)) \X {"-", "x"}}
        \cup BadTokens

\* ---------------------------------------------------------------------------
\* State of one Game
\* ---------------------------------------------------------------------------
VARIABLES
    board,              \* self.board (the grid)
    current_turn,       \* self.current_turn
    last_action_move,   \* self.last_action_move
    white_kings_made, white_num_captures,
    black_kings_made, black_num_captures,
    move_history,       \* self.move_history
    game_result,        \* self.game_result
    white_tracker, black_tracker,
    white_bot, black_bot,
    start_pdn,          \* None, or where the seed comes from
    pdn_content,        \* the tokens of the seed file read so far
    idx,                \* number of seed tokens replayed
    pc,                 \* position in Game.__init__ / Game.run
    result,             \* the local `result` of Game.run
    error,              \* the exception that ended the game, if any
    \* history variables
    movers,             \* the colour that played each ply of move_history
    quiet,              \* consecutive plies without capture or promotion
    bot_calls,          \* number of play_move calls made
    last_reply,         \* the last answer of play_move
    exported            \* what export_pdn returned for the game as it is now,
                        \* or for the game whose export seeded this one

tallies == <<white_kings_made, white_num_captures, black_kings_made, black_num_captures>>
gameVars == <<board, current_turn, last_action_move, tallies, move_history,
              game_result, white_tracker, black_tracker, white_bot, black_bot,
              start_pdn, pdn_content, idx, pc, result, error,
              movers, quiet, bot_calls, last_reply, exported>>

\* The codec under test: the board size, and the square numbers and the
\* coordinates obtained so far, each converted from the one before.
VARIABLES c_size, c_input, c_square, c_coord
codecVars == <<c_size, c_input, c_square, c_coord>>

\* State of the Controller
VARIABLES
    mode, bot, bot_list, rounds,    \* the parameters of Controller.__init__
    game_results,                   \* self.game_results
    game_id_counter,                \* self.game_id_counter
    game_result_map,                \* the statistics write_game_results builds
    ctl_pc,                         \* position in Controller.run
    ctl_error                       \* the exception that ended the run, if any
ctlVars == <<mode, bot, bot_list, rounds, game_results, game_id_counter,
             game_result_map, ctl_pc, ctl_error>>

\* Game.move_number
move_number == Len(move_history)

NoError == [kind |-> None, colour |-> None, turn |-> 0, move |-> <<>>]

\* self.game_result = None (line 50): no GameResult yet.
NoGameResult ==
    [result |-> None, white_name |-> None,
     white_kings_made |-> 0, white_num_captures |-> 0,
     black_name |-> None, black_kings_made |-> 0, black_num_captures |-> 0,
     num_moves |-> 0, moves_pdn |-> <<>>]
Raise(kind, colour, turn, move) ==
    [kind |-> kind, colour |-> colour, turn |-> turn, move |-> move]

\* Game.__init__ (lines 27-52): the fields of a freshly constructed game.
InitFields ==
    /\ board = InitBoard
    /\ current_turn = WHITE
    /\ last_action_move = 0
    /\ white_kings_made = 0
    /\ white_num_captures = 0
    /\ black_kings_made = 0
    /\ black_num_captures = 0
    /\ game_result = NoGameResult
    /\ move_history = <<>>
    /\ white_bot = None
    /\ black_bot = None
    /\ idx = 0
    /\ result = None
    /\ error = NoError
    /\ movers = <<>>
    /\ quiet = 0
    /\ bot_calls = 0
    /\ last_reply = Reply(0, "none")

NotExported ==
    [content |-> <<>>, history |-> <<>>, movers |-> <<>>, pc |-> None, turn |-> None]

\* An export describes the game until the game's next step.
ExportKept == IF start_pdn = "export" THEN exported ELSE NotExported

GameInit ==
    /\ InitFields
    /\ exported = NotExported
    /\ white_tracker \in BotKinds
    /\ black_tracker \in BotKinds \ {white_tracker}
    /\ start_pdn \in {None, "file"}
    /\ pdn_content = <<>>
    /\ pc = IF start_pdn = None THEN "run" ELSE "import_pdn"

\* Mutant of game_move_piece: last_action_move is never moved forward.
game_move_piece_NoReset(b, history, lam, wk, wc, bk, bc, turn, move) ==
    LET history1 == Append(history, move)
        r == board_move_piece(b, move)
        action == r.captures > 0 \/ r.promotion
    IN  [board |-> r.board,
         move_history |-> history1,
         last_action_move |-> lam,
         white_num_captures |-> IF turn = WHITE THEN wc + r.captures ELSE wc,
         black_num_captures |-> IF turn = WHITE THEN bc ELSE bc + r.captures,
         white_kings_made |-> IF r.promotion /\ turn = WHITE THEN wk + 1 ELSE wk,
         black_kings_made |-> IF r.promotion /\ turn # WHITE THEN bk + 1 ELSE bk,
         action |-> action]

\* Mutant of game_move_piece: last_action_move is taken before the append.
game_move_piece_StaleCount(b, history, lam, wk, wc, bk, bc, turn, move) ==
    LET history1 == Append(history, move)
        r == board_move_piece(b, move)
        action == r.captures > 0 \/ r.promotion
    IN  [board |-> r.board,
         move_history |-> history1,
         last_action_move |-> IF action THEN Len(history) ELSE lam,
         white_num_captures |-> IF turn = WHITE THEN wc + r.captures ELSE wc,
         black_num_captures |-> IF turn = WHITE THEN bc ELSE bc + r.captures,
         white_kings_made |-> IF r.promotion /\ turn = WHITE THEN wk + 1 ELSE wk,
         black_kings_made |-> IF r.promotion /\ turn # WHITE THEN bk + 1 ELSE bk,
         action |-> action]

\* Game._record_capture / Game._record_promotion, and the rest of
\* Game.move_piece (lines 124-133): the fields after `move` was applied for
\* the colour `turn`.
game_move_piece(b, history, lam, wk, wc, bk, bc, turn, move) ==
    LET history1 == Append(history, move)
        r == board_move_piece(b, move)
        action == r.captures > 0 \/ r.promotion
    IN  [board |-> r.board,
         move_history |-> history1,
         last_action_move |-> IF action THEN Len(history1) ELSE lam,
         white_num_captures |-> IF turn = WHITE THEN wc + r.captures ELSE wc,
         black_num_captures |-> IF turn = WHITE THEN bc ELSE bc + r.captures,
         white_kings_made |-> IF r.promotion /\ turn = WHITE THEN wk + 1 ELSE wk,
         black_kings_made |-> IF r.promotion /\ turn # WHITE THEN bk + 1 ELSE bk,
         action |-> action]

\* The assignment of the fields move_piece writes.
SetFields(g, turn) ==
    /\ board' = g.board
    /\ move_history' = g.move_history
    /\ last_action_move' = g.last_action_move
    /\ white_num_captures' = g.white_num_captures
    /\ black_num_captures' = g.black_num_captures
    /\ white_kings_made' = g.white_kings_made
    /\ black_kings_made' = g.black_kings_made
    /\ movers' = Append(movers, turn)
    /\ quiet' = IF g.action THEN 0 ELSE quiet + 1


\* ---------------------------------------------------------------------------
\* Game.import_pdn
\* ---------------------------------------------------------------------------
\* Game.swap_turn (lines 297-300): the value of current_turn after the call.
swap_turn(turn) == get_opposite(turn)

\* Mutant of FirstTurn: the two colours are mixed up.
FirstTurn_Swapped(b, move) ==
    IF is_valid_move(b, WHITE, move) THEN BLACK
    ELSE IF is_valid_move(b, BLACK, move) THEN WHITE
    ELSE None

\* Lines 96-99: the colour the first token is a legal move for; None if it is
\* legal for neither colour.
FirstTurn(b, move) ==
    IF is_valid_move(b, WHITE, move) THEN WHITE
    ELSE IF is_valid_move(b, BLACK, move) THEN BLACK
    ELSE None

\* Mutant of LaterTokenValid: the token is checked for the colour that is
\* not to move.
LaterTokenValid_OtherColour(b, turn, move) == is_valid_move(b, get_opposite(turn), move)

\* Line 105: a token after the first must be a legal move of current_turn.
LaterTokenValid(b, turn, move) == is_valid_move(b, turn, move)

\* One iteration of the loop over the tokens (lines 77-111).
ImportToken(token) ==
    /\ pc = "import_pdn"
    /\ IF start_pdn = "file"
       THEN /\ idx < MaxSeedLen
            /\ pdn_content' = Append(pdn_content, token)
       ELSE /\ idx < Len(pdn_content)
            /\ token = pdn_content[idx + 1]
            /\ UNCHANGED pdn_content
    /\ \E p \in {ParseToken(token)} :
       LET first == idx = 0
           fail(e) == /\ pc' = "raised"
                      /\ error' = e
                      /\ UNCHANGED <<board, current_turn, last_action_move, tallies,
                                     move_history, idx, movers, quiet>>
       IN  IF ~p.ok
           THEN fail(Raise(p.kind, None, 0, token))
           ELSE IF first /\ move_history # <<>>
           THEN fail(Raise("AssertionError", None, 0, <<>>))
           ELSE \E turn \in {IF first THEN FirstTurn(board, p.move) ELSE current_turn} :
                IF first /\ turn = None
                THEN fail(Raise("RuntimeError: first move invalid", None, 0, token))
                ELSE IF ~first /\ ~LaterTokenValid(board, current_turn, p.move)
                THEN fail(Raise("RuntimeError: invalid move", current_turn,
                                move_number + 1, token))
                ELSE \E g \in {game_move_piece(board, move_history, last_action_move,
                                    white_kings_made, white_num_captures,
                                    black_kings_made, black_num_captures,
                                    turn, p.move)} :
                     /\ SetFields(g, turn)
                     /\ current_turn' = swap_turn(turn)
                     /\ idx' = idx + 1
                     /\ UNCHANGED <<pc, error>>
    /\ UNCHANGED <<game_result, white_tracker, black_tracker, white_bot, black_bot,
                   start_pdn, result, bot_calls, last_reply>>
    /\ exported' = ExportKept
    /\ UNCHANGED <<codecVars, ctlVars>>

\* Mutant of AlreadyComplete: the check after the loop is missing.
AlreadyComplete_Never(move_list) == FALSE

\* Line 114: the side to move has no legal move.
AlreadyComplete(move_list) == move_list = <<>>

\* Mutant of ImportEnd: the end of the replay starts the inactivity count
\* afresh, so the quiet plies of the seed do not count.
ImportEnd_ResetsAction ==
    /\ pc = "import_pdn"
    /\ start_pdn = "file" \/ idx = Len(pdn_content)
    /\ IF AlreadyComplete(get_move_list(board, current_turn))
       THEN /\ pc' = "raised"
            /\ error' = Raise("RuntimeError: already complete", None, 0, <<>>)
       ELSE /\ pc' = "run"
            /\ UNCHANGED error
    /\ last_action_move' = move_number
    /\ UNCHANGED <<board, current_turn, tallies, move_history,
                   game_result, white_tracker, black_tracker, white_bot, black_bot,
                   start_pdn, pdn_content, idx, result, movers, quiet, bot_calls,
                   last_reply>>
    /\ exported' = ExportKept
    /\ UNCHANGED <<codecVars, ctlVars>>

\* The check after the loop (lines 113-115); the end of __init__.
ImportEnd ==
    /\ pc = "import_pdn"
    /\ start_pdn = "file" \/ idx = Len(pdn_content)
    /\ IF AlreadyComplete(get_move_list(board, current_turn))
       THEN /\ pc' = "raised"
            /\ error' = Raise("RuntimeError: already complete", None, 0, <<>>)
       ELSE /\ pc' = "run"
            /\ UNCHANGED error
    /\ UNCHANGED <<board, current_turn, last_action_move, tallies, move_history,
                   game_result, white_tracker, black_tracker, white_bot, black_bot,
                   start_pdn, pdn_content, idx, result, movers, quiet, bot_calls,
                   last_reply>>
    /\ exported' = ExportKept
    /\ UNCHANGED <<codecVars, ctlVars>>

\* ---------------------------------------------------------------------------
\* Game.run
\* ---------------------------------------------------------------------------
\* Lines 266-267: the bots are spawned from their trackers.
RunSpawn ==
    /\ pc = "run"
    /\ white_bot' = white_tracker
    /\ black_bot' = black_tracker
    /\ pc' = "make_move"
    /\ UNCHANGED <<board, current_turn, last_action_move, tallies, move_history,
                   game_result, white_tracker, black_tracker, start_pdn, pdn_content,
                   idx, result, error, movers, quiet, bot_calls, last_reply>>
    /\ exported' = ExportKept
    /\ UNCHANGED <<codecVars, ctlVars>>

\* Mutant of deepcopy_board: the snapshot holds the engine's own board.
deepcopy_board_Alias == "self_board"

\* The objects the PlayMoveInfo fields refer to (lines 224, 226, 227): each is
\* a fresh object holding a copy.
deepcopy_board == "info_board"
copy_move_list == "info_move_list"
copy_move_history == "info_move_history"

\* The objects alive during make_move, by name, before the snapshot is built.
EngineHeap(move_list) ==
    [self_board |-> board, move_list |-> move_list, self_move_history |-> move_history,
     info_board |-> <<>>, info_move_list |-> <<>>, info_move_history |-> <<>>]

\* PlayMoveInfo(...) (lines 223-230): the references held by the snapshot.
PlayMoveInfo ==
    [board |-> deepcopy_board, colour |-> current_turn, move_list |-> copy_move_list,
     move_history |-> copy_move_history, last_action_move |-> last_action_move,
     pos_eval |-> None]

\* The heap once the copies of the snapshot have been made.
SnapshotHeap(heap, info) ==
    [[[heap EXCEPT ![info.board] = heap.self_board]
             EXCEPT ![info.move_list] = heap.move_list]
             EXCEPT ![info.move_history] = heap.self_move_history]

\* The heap after the bot did `mutation` to the objects of its snapshot.  Move
\* objects are immutable, so only the board and the two lists can be written.
BotMutate(heap, info, mutation) ==
    CASE mutation = "clear_board" ->
            [heap EXCEPT ![info.board] = [cell \in Cells |-> EMPTY]]
      [] mutation = "clear_move_list" ->
            [heap EXCEPT ![info.move_list] = <<>>]
      [] mutation = "reverse_move_list" ->
            [heap EXCEPT ![info.move_list] =
                [i \in 1..Len(@) |-> @[Len(@) + 1 - i]]]
      [] mutation = "clear_move_history" ->
            [heap EXCEPT ![info.move_history] = <<>>]
      [] mutation = "extend_move_history" ->
            [heap EXCEPT ![info.move_history] =
                Append(@, Move(<<0, 1>>, <<0, 1>>, <<>>))]
      [] OTHER -> heap

\* Mutant of IsAutoDraw: the inactivity rule is missing.
IsAutoDraw_Never(mn, lam) == FALSE

\* Mutant of IsAutoDraw: the draw is declared one ply late.
IsAutoDraw_Late(mn, lam) == mn - lam > AUTO_DRAW_MOVECOUNT

\* Line 241: the inactivity draw.
IsAutoDraw(mn, lam) == mn - lam >= AUTO_DRAW_MOVECOUNT

\* Mutant of NoMoveResult: the colour that cannot move is declared the winner.
NoMoveResult_Self(colour) == colour

\* Line 209: the winner when colour has no move.
NoMoveResult(colour) == IF colour = WHITE THEN BLACK ELSE WHITE

\* Line 237: move_list[move_idx]; a negative index counts from the end.
PyIndex(list, i) == IF i < 0 THEN list[Len(list) + i + 1] ELSE list[i + 1]

\* Mutant of IsInvalidIndex: the test for a negative index is missing.
IsInvalidIndex_NoNegative(i, n) == i >= n

\* Line 233: the index is outside the offered list.
IsInvalidIndex(i, n) == i < 0 \/ i >= n

\* One iteration of the loop of Game.run (lines 269-274): Game.make_move
\* (lines 202-251), in which the bot answers `reply`, and, when it returns no
\* result, Game.swap_turn.
RunIteration(reply) ==
    /\ pc = "make_move"
    /\ \E move_list0 \in {get_move_list(board, current_turn)} :
       IF Len(move_list0) = 0
       THEN /\ reply = Reply(0, "none")
            /\ result' = NoMoveResult(current_turn)
            /\ pc' = "write_game_result"
            /\ UNCHANGED <<board, last_action_move, tallies, move_history, error,
                           movers, quiet, bot_calls, last_reply, current_turn>>
       ELSE /\ reply \in play_move(IF current_turn = WHITE THEN white_bot
                                                             ELSE black_bot,
                                   Len(move_list0), move_number)
            /\ bot_calls' = bot_calls + 1
            /\ last_reply' = reply
            /\ \E heap \in {BotMutate(SnapshotHeap(EngineHeap(move_list0),
                                                   PlayMoveInfo),
                                      PlayMoveInfo, reply.mutation)} :
               LET move_list == heap.move_list
               IN  IF IsInvalidIndex(reply.idx, Len(move_list))
                   THEN /\ pc' = "raised"
                        /\ error' = Raise("RuntimeError: bot invalid move",
                                          current_turn, 0, <<>>)
                        /\ board' = heap.self_board
                        /\ move_history' = heap.self_move_history
                        /\ UNCHANGED <<last_action_move, tallies, result, movers,
                                       quiet, current_turn>>
                   ELSE \E g \in {game_move_piece(heap.self_board,
                                       heap.self_move_history, last_action_move,
                                       white_kings_made, white_num_captures,
                                       black_kings_made, black_num_captures,
                                       current_turn, PyIndex(move_list, reply.idx))} :
                        /\ SetFields(g, current_turn)
                        /\ IF IsAutoDraw(Len(g.move_history), g.last_action_move)
                           THEN /\ result' = DRAW
                                /\ pc' = "write_game_result"
                                /\ UNCHANGED current_turn
                           ELSE /\ result' = None
                                /\ pc' = "make_move"
                                /\ current_turn' = swap_turn(current_turn)
                        /\ UNCHANGED error
    /\ UNCHANGED <<game_result, white_tracker, black_tracker,
                   white_bot, black_bot, start_pdn, pdn_content, idx>>
    /\ exported' = ExportKept
    /\ UNCHANGED <<codecVars, ctlVars>>

\* The answers the bot to move may give in the current state.
Replies ==
    IF pc # "make_move" THEN {}
    ELSE {Reply(0, "none")} \cup
         play_move(IF current_turn = WHITE THEN white_bot ELSE black_bot,
                   Len(get_move_list(board, current_turn)), move_number)

\* The tokens the seed file may hold at the position the replay has reached.
NextTokens ==
    IF pc # "import_pdn" THEN {}
    ELSE IF start_pdn = "file" THEN SeedTokens(board)
    ELSE {pdn_content[i] : i \in {idx + 1} \cap (1..Len(pdn_content))}

\* Mutant of GameResult: moves_pdn is the export of the move history.
GameResult_WithPdn ==
    [result |-> result,
     white_name |-> white_tracker,
     white_kings_made |-> white_kings_made,
     white_num_captures |-> white_num_captures,
     black_name |-> black_tracker,
     black_kings_made |-> black_kings_made,
     black_num_captures |-> black_num_captures,
     num_moves |-> move_number,
     moves_pdn |-> export_pdn(move_history)]

\* Mutant of GameResult: the tallies of the two colours are exchanged.
GameResult_Swapped ==
    [result |-> result,
     white_name |-> white_tracker,
     white_kings_made |-> black_kings_made,
     white_num_captures |-> black_num_captures,
     black_name |-> black_tracker,
     black_kings_made |-> white_kings_made,
     black_num_captures |-> white_num_captures,
     num_moves |-> move_number,
     moves_pdn |-> <<>>]

\* Game._write_game_result (lines 278-295)
GameResult ==
    [result |-> result,
     white_name |-> white_tracker,
     white_kings_made |-> white_kings_made,
     white_num_captures |-> white_num_captures,
     black_name |-> black_tracker,
     black_kings_made |-> black_kings_made,
     black_num_captures |-> black_num_captures,
     num_moves |-> move_number,
     moves_pdn |-> <<>>]

WriteGameResult ==
    /\ pc = "write_game_result"
    /\ pc' = "done"
    /\ game_result' = GameResult
    /\ UNCHANGED <<board, current_turn, last_action_move, tallies, move_history,
                   white_tracker, black_tracker, white_bot, black_bot, start_pdn,
                   pdn_content, idx, result, error, movers, quiet, bot_calls, last_reply>>
    /\ exported' = ExportKept
    /\ UNCHANGED <<codecVars, ctlVars>>

\* Game.__init__ (lines 27-52) for a game constructed after another one.
FreshFields ==
    /\ board' = InitBoard
    /\ current_turn' = WHITE
    /\ last_action_move' = 0
    /\ white_kings_made' = 0
    /\ white_num_captures' = 0
    /\ black_kings_made' = 0
    /\ black_num_captures' = 0
    /\ game_result' = NoGameResult
    /\ move_history' = <<>>
    /\ white_bot' = None
    /\ black_bot' = None
    /\ idx' = 0
    /\ result' = None
    /\ error' = NoError
    /\ movers' = <<>>
    /\ quiet' = 0
    /\ bot_calls' = 0
    /\ last_reply' = Reply(0, "none")

GameNext ==
    \/ ImportEnd
    \/ RunSpawn
    \/ WriteGameResult
    \/ \E token \in NextTokens : ImportToken(token)
    \/ \E reply \in Replies : RunIteration(reply)

\* export_pdn(filename) on a game that is over or in its first plies; the
\* game is left as it is.
ExportPdn ==
    /\ start_pdn # "export"
    /\ exported = NotExported
    /\ \/ pc = "done"
       \/ pc = "make_move" /\ move_number <= MaxExportPlies
    /\ exported' = [content |-> export_pdn(move_history), history |-> move_history,
                     movers |-> movers, pc |-> pc, turn |-> current_turn]
    /\ UNCHANGED <<board, current_turn, last_action_move, tallies, move_history,
                   game_result, white_tracker, black_tracker, white_bot, black_bot,
                   start_pdn, pdn_content, idx, pc, result, error, movers, quiet,
                   bot_calls, last_reply>>
    /\ UNCHANGED <<codecVars, ctlVars>>

\* Game(..., start_pdn = filename) with the file just exported: a fresh game
\* on the initial board, seeded with the exported content (lines 70-73).
SeedFromExport ==
    /\ start_pdn # "export"
    /\ exported.pc # None
    /\ start_pdn' = "export"
    /\ pdn_content' = split_whitespace(exported.content)
    /\ pc' = "import_pdn"
    /\ FreshFields
    /\ UNCHANGED <<white_tracker, black_tracker, exported>>
    /\ UNCHANGED <<codecVars, ctlVars>>

\* No game is being played.
GameIdle ==
    /\ InitFields
    /\ exported = NotExported
    /\ white_tracker = None
    /\ black_tracker = None
    /\ start_pdn = None
    /\ pdn_content = <<>>
    /\ pc = "idle"

\* ---------------------------------------------------------------------------
\* The codec as a pair of pure functions
\* ---------------------------------------------------------------------------
CodecSizes == {2 * h : h \in 1..MaxCodecHalf}
\* The square numbers of a board of size sz: sz \div 2 on each of its sz rows.
Squares(sz) == 1..((sz * sz) \div 2)
PlayableCells(sz) == {cell \in (0..(sz - 1)) \X (0..(sz - 1)) : (cell[1] + cell[2]) % 2 = 1}

CodecIdle ==
    /\ c_size = 0
    /\ c_input = None
    /\ c_square = <<>>
    /\ c_coord = <<>>

\* The input is a square number of the board, or one of its playable cells.
CodecInit ==
    /\ c_size \in CodecSizes
    /\ c_input \in {"square", "coord"}
    /\ IF c_input = "square"
       THEN /\ c_square \in {<<n>> : n \in Squares(c_size)}
            /\ c_coord = <<>>
       ELSE /\ c_coord \in {<<cell>> : cell \in PlayableCells(c_size)}
            /\ c_square = <<>>

\* Game._pdn_to_coordinates applied to the square number obtained last.
PdnToCoordinates ==
    /\ \/ c_input = "square" /\ Len(c_coord) = 0
       \/ c_input = "coord" /\ Len(c_square) = 1 /\ Len(c_coord) = 1
    /\ c_coord' = Append(c_coord, pdn_to_coordinates(c_size, c_square[Len(c_square)]))
    /\ UNCHANGED <<c_size, c_input, c_square, gameVars, ctlVars>>

\* Game._coordinates_to_pdn applied to the coordinate obtained last.
CoordinatesToPdn ==
    /\ \/ c_input = "coord" /\ Len(c_square) = 0
       \/ c_input = "square" /\ Len(c_coord) = 1 /\ Len(c_square) = 1
    /\ c_square' = Append(c_square, coordinates_to_pdn(c_size, c_coord[Len(c_coord)]))
    /\ UNCHANGED <<c_size, c_input, c_coord, gameVars, ctlVars>>

\* ---------------------------------------------------------------------------
\* Controller
\* ---------------------------------------------------------------------------
\* The keys of Controller.bot_mapping (lines 43-46).
BotNames == {"RandomBot", "FirstMover"}

\* UniqueBot (lines 15-18)
UniqueBot(i, name) == [idx |-> i, name |-> name]

\* make_unique_bot_string: the display name "<name>#<index>".
make_unique_bot_string(i, name) == <<name, i>>

\* Mutant of run_games: the second game of a round keeps the colours of the
\* first.
run_games_SameColours(b, other, n) ==
    Flatten([r \in 1..n |->
        <<[white |-> b, black |-> other, game_round |-> r],
          [white |-> b, black |-> other, game_round |-> r]>>])

\* Controller.run_games (lines 110-113): the games of one pairing, in order.
run_games(b, other, n) ==
    Flatten([r \in 1..n |->
        <<[white |-> b, black |-> other, game_round |-> r],
          [white |-> other, black |-> b, game_round |-> r]>>])

\* Controller.run_all (lines 78-87)
run_all(list, n) ==
    Flatten([x \in 1..Len(list) |->
        Flatten([y \in 1..Len(list) |->
            IF x = y THEN <<>>
            ELSE run_games(UniqueBot(x - 1, list[x]), UniqueBot(y - 1, list[y]), n)])])

\* Controller.run_one (lines 89-96)
run_one(b, list, n) ==
    Flatten([y \in 1..Len(list) |->
        run_games(UniqueBot(-1, b), UniqueBot(y - 1, list[y]), n)])

\* The run_game calls of a whole run, in the order they are made.
Schedule(m, b, list, n) ==
    IF m = "all" THEN run_all(list, n) ELSE run_one(b, list, n)

\* The winner and loser attributes of a GameResult.  For a drawn game the
\* record names one of the two players as winner and the other as loser, or
\* neither (draw_view).
ResultView(res, white_name, black_name, draw_view) ==
    LET white_won == [winner_name |-> white_name, winner_colour |-> WHITE,
                      loser_name |-> black_name, loser_colour |-> BLACK]
        black_won == [winner_name |-> black_name, winner_colour |-> BLACK,
                      loser_name |-> white_name, loser_colour |-> WHITE]
        nobody == [winner_name |-> <<>>, winner_colour |-> None,
                   loser_name |-> <<>>, loser_colour |-> None]
    IN  IF res = WHITE \/ (res = DRAW /\ draw_view = WHITE) THEN white_won
        ELSE IF res = BLACK \/ (res = DRAW /\ draw_view = BLACK) THEN black_won
        ELSE nobody

\* game.get_game_result() for the game run by Controller.run_game.
ControllerGameResult(game_id, g, outcome) ==
    LET white_name == make_unique_bot_string(g.white.idx, g.white.name)
        black_name == make_unique_bot_string(g.black.idx, g.black.name)
        view == ResultView(outcome.result, white_name, black_name, outcome.draw_view)
    IN  [game_id |-> game_id, game_round |-> g.game_round,
         result |-> outcome.result,
         white_name |-> white_name, black_name |-> black_name,
         winner_name |-> view.winner_name, winner_colour |-> view.winner_colour,
         loser_name |-> view.loser_name, loser_colour |-> view.loser_colour]

\* How a game run by the controller may end.
Outcomes ==
    {[result |-> WHITE, draw_view |-> None], [result |-> BLACK, draw_view |-> None],
     [result |-> DRAW, draw_view |-> WHITE], [result |-> DRAW, draw_view |-> BLACK],
     [result |-> DRAW, draw_view |-> None], [result |-> "raise", draw_view |-> None]}

GameResultStat(ww, wl, bw, bl) ==
    [white_wins |-> ww, white_losses |-> wl, black_wins |-> bw, black_losses |-> bl]

\* Lines 167-171: the empty statistics, one entry per bot identity.
EmptyStats(b, list) ==
    LET keys == (IF b # None THEN {make_unique_bot_string(-1, b)} ELSE {})
                \cup {make_unique_bot_string(i - 1, list[i]) : i \in 1..Len(list)}
    IN  [k \in keys |-> GameResultStat(0, 0, 0, 0)]

\* Lines 174-178: the winner of `game` is added.
AddWinner(map, game) ==
    IF game.winner_colour = "WHITE"
    THEN [map EXCEPT ![game.winner_name].white_wins = @ + 1]
    ELSE [map EXCEPT ![game.winner_name].black_wins = @ + 1]

\* Lines 180-184: the loser of `game` is added.
AddLoser(map, game) ==
    IF game.loser_colour = "WHITE"
    THEN [map EXCEPT ![game.loser_name].white_losses = @ + 1]
    ELSE [map EXCEPT ![game.loser_name].black_losses = @ + 1]

\* Lines 173-184: the loop over the games; a name that is no key of the map
\* raises KeyError.
RECURSIVE TallyGames(_, _)
TallyGames(map, games) ==
    IF games = <<>> THEN [ok |-> TRUE, map |-> map]
    ELSE LET game == Head(games)
         IN  IF game.winner_name \notin DOMAIN map \/ game.loser_name \notin DOMAIN map
             THEN [ok |-> FALSE, map |-> map]
             ELSE TallyGames(AddLoser(AddWinner(map, game), game), Tail(games))

CtlIdle ==
    /\ mode = None
    /\ bot = None
    /\ bot_list = <<>>
    /\ rounds = 0
    /\ game_results = <<>>
    /\ game_id_counter = 0
    /\ game_result_map = <<>>
    /\ ctl_pc = "idle"
    /\ ctl_error = None

BotLists == UNION {[1..n -> BotNames] : n \in 0..MaxBots}

\* Controller.__init__ (lines 28-46), for the runs of at most MaxGames games.
CtlInit ==
    /\ mode \in {"all", "one"}
    /\ bot \in BotNames \cup {None}
    /\ bot_list \in BotLists
    /\ rounds \in 1..MaxRounds
    /\ Len(Schedule(mode, bot, bot_list, rounds)) <= MaxGames
    /\ game_results = <<>>
    /\ game_id_counter = 0
    /\ game_result_map = <<>>
    /\ ctl_pc = "run"
    /\ ctl_error = None

\* Controller.run (lines 48-58): the mode is dispatched.
ControllerRun ==
    /\ ctl_pc = "run"
    /\ IF (mode = "all" /\ bot # None) \/ (mode = "one" /\ bot = None)
       THEN ctl_pc' = "raised" /\ ctl_error' = "AssertionError"
       ELSE IF mode \notin {"all", "one"}
       THEN ctl_pc' = "raised" /\ ctl_error' = "RuntimeError"
       ELSE /\ ctl_pc' = IF Schedule(mode, bot, bot_list, rounds) = <<>>
                         THEN "write_game_results" ELSE "run_games"
            /\ UNCHANGED ctl_error
    /\ UNCHANGED <<mode, bot, bot_list, rounds, game_results, game_id_counter,
                   game_result_map>>
    /\ UNCHANGED <<gameVars, codecVars>>

\* Controller.get_new_game_id (lines 106-108)
get_new_game_id(counter) == counter + 1

\* Mutant of Propagates: run_game catches what the game raises.
Propagates_Caught(outcome) == FALSE

\* Lines 102-103: nothing around Game(...) and game.run() catches an
\* exception, so one raised by the game leaves run_game at once.
Propagates(outcome) == outcome.result = "raise"

\* Controller.run_game (lines 98-104) for the next game of the schedule,
\* which ends as `outcome` says.
RunGame(outcome) ==
    /\ ctl_pc = "run_games"
    /\ LET schedule == Schedule(mode, bot, bot_list, rounds)
           game_id == get_new_game_id(game_id_counter)
           g == schedule[game_id_counter + 1]
       IN  /\ game_id_counter' = game_id
           /\ IF Propagates(outcome)
              THEN /\ ctl_pc' = "raised"
                   /\ ctl_error' = "raised by the game"
                   /\ UNCHANGED game_results
              ELSE /\ game_results' =
                          Append(game_results, ControllerGameResult(game_id, g, outcome))
                   /\ ctl_pc' = IF game_id = Len(schedule)
                                THEN "write_game_results" ELSE "run_games"
                   /\ UNCHANGED ctl_error
    /\ UNCHANGED <<mode, bot, bot_list, rounds, game_result_map>>
    /\ UNCHANGED <<gameVars, codecVars>>

\* Controller.write_game_results (lines 153-187)
WriteGameResults ==
    /\ ctl_pc = "write_game_results"
    /\ LET t == TallyGames(EmptyStats(bot, bot_list), game_results)
       IN  IF t.ok
           THEN /\ game_result_map' = t.map
                /\ ctl_pc' = "done"
                /\ UNCHANGED ctl_error
           ELSE /\ ctl_pc' = "raised"
                /\ ctl_error' = "KeyError"
                /\ UNCHANGED game_result_map
    /\ UNCHANGED <<mode, bot, bot_list, rounds, game_results, game_id_counter>>
    /\ UNCHANGED <<gameVars, codecVars>>

\* ---------------------------------------------------------------------------
\* Specifications
\* ---------------------------------------------------------------------------
vars == <<gameVars, codecVars, ctlVars>>

\* One game.
Init == GameInit /\ CodecIdle /\ CtlIdle
Next == GameNext
Spec == Init /\ [][Next]_vars

\* One game that is run on: the interpreter executes the next step of
\* __init__ and of run as long as there is one, and the bots answer.
\* Every step of Next changes pc or appends to move_history.
SpecFair == Init /\ [][Next]_vars /\ WF_<<pc, move_history>>(Next)

\* Games, and games seeded from the export of an earlier game.
NextSeeded == GameNext \/ ExportPdn \/ SeedFromExport
SpecSeeded == Init /\ [][NextSeeded]_vars

\* The two conversions of the codec, applied to every square and cell.
InitCodec == GameIdle /\ CodecInit /\ CtlIdle
NextCodec == PdnToCoordinates \/ CoordinatesToPdn
SpecCodec == InitCodec /\ [][NextCodec]_vars

\* One run of the controller.
InitController == GameIdle /\ CodecIdle /\ CtlInit
NextController ==
    \/ ControllerRun
    \/ \E outcome \in Outcomes : RunGame(outcome)
    \/ WriteGameResults
SpecController == InitController /\ [][NextController]_vars

\* The program: one game on its own, or one run of the controller in which
\* each game is known by how it ends.
InitProgram == Init \/ InitController
NextProgram == GameNext \/ NextController
SpecProgram == InitProgram /\ [][NextProgram]_vars

\* ---------------------------------------------------------------------------
\* Properties
\* ---------------------------------------------------------------------------
InProgress == pc = "make_move"
Ended == pc \in {"write_game_result", "done"}

C2_NoMovesEndsGame ==
    [][(pc = "make_move" /\ get_move_list(board, current_turn) = <<>>) =>
          /\ result' = (IF current_turn = WHITE THEN BLACK ELSE WHITE)
          /\ pc' = "write_game_result"
          /\ bot_calls' = bot_calls
          /\ UNCHANGED <<board, move_history, last_action_move, tallies, quiet,
                         movers, current_turn>>]_vars

C2_Witness ==
    /\ pc = "write_game_result"
    /\ get_move_list(board, current_turn) = <<>>
    /\ result = WHITE
    /\ current_turn = BLACK
    /\ bot_calls > 0

\* C3: when the bot answers a non-empty move list with an index below 0 or
\* not below the length of the list, make_move raises the fatal error and
\* applies nothing: board, move history, last_action_move, tallies and
\* current_turn are as before the call, and the game does not go on.
C3_InvalidIndexIsFatal ==
    [][(/\ pc = "make_move"
        /\ bot_calls' = bot_calls + 1
        /\ \/ last_reply'.idx < 0
           \/ last_reply'.idx >= Len(get_move_list(board, current_turn))) =>
          /\ pc' = "raised"
          /\ error'.kind = "RuntimeError: bot invalid move"
          /\ result' = None
          /\ UNCHANGED <<board, move_history, last_action_move, tallies,
                         current_turn>>]_vars

C3_Witness ==
    /\ pc = "raised"
    /\ error.kind = "RuntimeError: bot invalid move"
    /\ move_history # <<>>
    /\ last_reply.idx = Len(get_move_list(board, current_turn))

C5_TurnAlternation ==
    /\ [](/\ \A k \in 1..(Len(movers) - 1) : movers[k + 1] # movers[k]
          /\ (start_pdn = None /\ movers # <<>>) => movers[1] = WHITE
          /\ Len(movers) = Len(move_history)
          /\ (InProgress /\ movers # <<>>) => current_turn # movers[Len(movers)])
    /\ [][pc = "make_move" =>
             IF pc' = "make_move"
             THEN current_turn' # current_turn /\ movers' = Append(movers, current_turn)
             ELSE current_turn' = current_turn]_vars

C5_Witness ==
    /\ start_pdn = None
    /\ pc = "make_move"
    /\ Len(movers) >= 3
    /\ current_turn = BLACK

\* C6: a game ends with exactly one result among WHITE, BLACK and DRAW; once
\* make_move has returned a result no ply is requested or applied; the
\* GameResult carries that result, the length of the move history and the
\* four tallies as they stood when the game ended.
C6_TerminalAbsorbing ==
    /\ [](/\ Ended => result \in {WHITE, BLACK, DRAW}
          /\ result # None => Ended
          /\ pc = "done" =>
                /\ game_result.result = result
                /\ game_result.num_moves = Len(move_history)
                /\ game_result.white_kings_made = white_kings_made
                /\ game_result.white_num_captures = white_num_captures
                /\ game_result.black_kings_made = black_kings_made
                /\ game_result.black_num_captures = black_num_captures
          /\ pc # "done" => game_result = NoGameResult)
    /\ [][result # None =>
             UNCHANGED <<result, board, move_history, bot_calls, tallies,
                         last_action_move, current_turn>>]_vars

C6_Witness ==
    /\ pc = "done"
    /\ game_result.result = WHITE
    /\ game_result.white_num_captures > 0
    /\ game_result.num_moves > 2


NoChains(history) == \A i \in 1..Len(history) : Len(history[i].removed) <= 1
StartEnd(history) == [i \in 1..Len(history) |-> <<history[i].start, history[i].end>>]
Replayed == start_pdn = "export" /\ NoChains(exported.history) /\ bot_calls = 0

\* C7 (as stated): a move history without multi-jump chains, exported and
\* imported into a fresh game, is always accepted and gives the same start/end
\* pairs played by the same colours.
C7_RoundTripAlwaysAccepted ==
    Replayed =>
        /\ pc # "raised"
        /\ StartEnd(move_history) = StartEnd(SubSeq(exported.history, 1, idx))
        /\ movers = SubSeq(exported.movers, 1, idx)

\* C7 (amended): the tokens of an exported history without multi-jump chains
\* replay to the same start/end pairs, in the same order, played by the same
\* colours; the import is accepted, with the same side to move, provided the
\* side to move after the last move has a legal move, and otherwise it is
\* rejected after the last token as an already complete game.
C7_RoundTrip ==
    Replayed =>
        /\ StartEnd(move_history) = StartEnd(SubSeq(exported.history, 1, idx))
        /\ movers = SubSeq(exported.movers, 1, idx)
        /\ pc = "raised" =>
              /\ error.kind = "RuntimeError: already complete"
              /\ idx = Len(exported.history)
              /\ get_move_list(board, current_turn) = <<>>
        /\ pc \in {"run", "make_move"} =>
              /\ idx = Len(exported.history)
              /\ get_move_list(board, current_turn) # <<>>
              /\ exported.pc = "make_move" => current_turn = exported.turn
              /\ movers # <<>> => current_turn # movers[Len(movers)]
        /\ pc \in {"import_pdn", "run", "make_move", "raised"}

C7_Witness ==
    /\ Replayed
    /\ pc = "run"
    /\ Len(move_history) >= AUTO_DRAW_MOVECOUNT
    /\ white_num_captures > 0
    /\ black_num_captures > 0

\* C8: for every even board size N and every square number n of the board
\* (1..N*N/4 included), pdn_to_coordinates(n) is a cell inside the N x N grid
\* with row + col odd, and coordinates_to_pdn of it is n again; conversely
\* coordinates_to_pdn followed by pdn_to_coordinates returns every playable
\* cell unchanged.  For N = 8: 1 -> (0,1), 4 -> (0,7), 5 -> (1,0).
C8_CodecBijection ==
    /\ (c_input = "square" /\ Len(c_coord) = 1) =>
          /\ c_coord[1] \in (0..(c_size - 1)) \X (0..(c_size - 1))
          /\ (c_coord[1][1] + c_coord[1][2]) % 2 = 1
          /\ (c_size = 8 /\ c_square[1] = 1) => c_coord[1] = <<0, 1>>
          /\ (c_size = 8 /\ c_square[1] = 4) => c_coord[1] = <<0, 7>>
          /\ (c_size = 8 /\ c_square[1] = 5) => c_coord[1] = <<1, 0>>
    /\ (c_input = "square" /\ Len(c_square) = 2) => c_square[2] = c_square[1]
    /\ (c_input = "coord" /\ Len(c_coord) = 2) => c_coord[2] = c_coord[1]

C8_Witness ==
    /\ c_size = 8
    /\ c_input = "square"
    /\ c_square = <<5, 5>>
    /\ c_coord = << <<1, 0>> >>

\* Number of the games of game_results that satisfy P.
GamesWhere(P(_)) == Cardinality({i \in 1..Len(game_results) : P(game_results[i])})

\* C9: after write_game_results, for every bot identity the four counters
\* add up to the number of games the bot took part in, each decisive game
\* counts as one win for its winner and one loss for its loser, under the
\* colours they played, and a drawn game adds to no counter.
C9_StatisticsConservation ==
    ctl_pc = "done" =>
        \A k \in DOMAIN game_result_map :
            LET stat == game_result_map[k]
                Participated(g) == g.white_name = k \/ g.black_name = k
                WonAsWhite(g) == g.result = WHITE /\ g.white_name = k
                LostAsWhite(g) == g.result = BLACK /\ g.white_name = k
                WonAsBlack(g) == g.result = BLACK /\ g.black_name = k
                LostAsBlack(g) == g.result = WHITE /\ g.black_name = k
            IN  /\ stat.white_wins + stat.white_losses + stat.black_wins
                       + stat.black_losses = GamesWhere(Participated)
                /\ stat.white_wins = GamesWhere(WonAsWhite)
                /\ stat.white_losses = GamesWhere(LostAsWhite)
                /\ stat.black_wins = GamesWhere(WonAsBlack)
                /\ stat.black_losses = GamesWhere(LostAsBlack)

\* C10: the first seed token fixes current_turn to the one colour it is a
\* legal move for on the initial board (no token is legal for both); a first
\* token legal for neither colour makes the import fail with nothing applied;
\* after a successful import of k tokens move_number = k and the side to move
\* is the opposite of the colour that played token k.
C10_SeedFirstToken ==
    /\ (pc = "import_pdn" /\ idx = 0) =>
          \A token \in SeedTokens(board) :
              ParseToken(token).ok =>
                  ~(/\ is_valid_move(board, WHITE, ParseToken(token).move)
                    /\ is_valid_move(board, BLACK, ParseToken(token).move))
    /\ (pc \in {"import_pdn", "run", "raised"} /\ idx >= 1) =>
          /\ move_history[1] = ParseToken(pdn_content[1]).move
          /\ PieceColour(InitBoard[move_history[1].start]) = movers[1]
          /\ is_valid_move(InitBoard, movers[1], move_history[1])
    /\ (start_pdn = "file" /\ idx = 0 /\ pdn_content # <<>>) =>
          /\ pc = "raised"
          /\ move_history = <<>>
          /\ board = InitBoard
          /\ current_turn = WHITE
          /\ ParseToken(pdn_content[1]).ok =>
                /\ error.kind = "RuntimeError: first move invalid"
                /\ ~is_valid_move(board, WHITE, ParseToken(pdn_content[1]).move)
                /\ ~is_valid_move(board, BLACK, ParseToken(pdn_content[1]).move)
    /\ pc = "run" =>
          /\ move_number = idx
          /\ Len(movers) = idx
          /\ idx > 0 => current_turn = (IF movers[idx] = WHITE THEN BLACK ELSE WHITE)
          /\ start_pdn = "file" => idx = Len(pdn_content)

C10_Witness ==
    /\ start_pdn = "file"
    /\ pc = "run"
    /\ idx = 2
    /\ movers[1] = BLACK
    /\ current_turn = BLACK

\* A step of the loop of import_pdn over the tokens: a token is applied, or
\* the import fails at it.
TokenStep ==
    /\ pc = "import_pdn"
    /\ idx' = idx + 1 \/ (pc' = "raised" /\ error'.kind # "RuntimeError: already complete")

\* The move history is the moves of the first idx tokens of the seed.
HistoryIsSeedPrefix ==
    /\ Len(move_history) = idx
    /\ \A i \in 1..idx : move_history[i] = ParseToken(pdn_content[i]).move

\* C11: a well-formed token after the first is applied if and only if it is a
\* legal move of current_turn; otherwise the import fails citing that colour,
\* the ply number move_number + 1 and the token, nothing is applied, and no
\* later token is processed: move_history holds exactly the tokens before the
\* offending one.
C11_LaterTokens ==
    /\ [][(TokenStep /\ idx >= 1 /\ ParseToken(pdn_content'[idx + 1]).ok) =>
            LET token == pdn_content'[idx + 1]
                move == ParseToken(token).move
            IN  IF is_valid_move(board, current_turn, move)
                THEN /\ pc' = "import_pdn"
                     /\ idx' = idx + 1
                     /\ move_history' = Append(move_history, move)
                     /\ board' = board_move_piece(board, move).board
                     /\ current_turn' = get_opposite(current_turn)
                ELSE /\ pc' = "raised"
                     /\ error' = Raise("RuntimeError: invalid move", current_turn,
                                       move_number + 1, token)
                     /\ UNCHANGED <<board, move_history, idx, current_turn>>]_vars
    /\ [](pc = "raised" /\ error.kind = "RuntimeError: invalid move" =>
            /\ HistoryIsSeedPrefix
            /\ idx >= 1
            /\ error.move = pdn_content[idx + 1]
            /\ start_pdn = "file" => Len(pdn_content) = idx + 1)
    /\ [][pc = "raised" => UNCHANGED <<pc, board, move_history, idx>>]_vars

C11_Witness ==
    /\ pc = "raised"
    /\ error.kind = "RuntimeError: invalid move"
    /\ error = Raise("RuntimeError: invalid move", current_turn, 2, pdn_content[2])
    /\ Len(move_history) = 1
    /\ ParseToken(pdn_content[2]).ok
    /\ is_valid_move(board, get_opposite(current_turn), ParseToken(pdn_content[2]).move)

\* C12: a seed is accepted only when, after all its tokens were replayed, the
\* side to move has a legal move; otherwise the import fails, the game never
\* is in progress and no bot is asked for a move.
C12_FinishedSeed ==
    /\ (pc = "raised" /\ error.kind = "RuntimeError: already complete") =>
          /\ get_move_list(board, current_turn) = <<>>
          /\ HistoryIsSeedPrefix
          /\ idx = Len(pdn_content)
          /\ bot_calls = 0
          /\ white_bot = None /\ black_bot = None
          /\ game_result = NoGameResult
    /\ (start_pdn # None /\ pc \in {"run", "make_move"} /\ bot_calls = 0) =>
          /\ get_move_list(board, current_turn) # <<>>
          /\ HistoryIsSeedPrefix
          /\ idx = Len(pdn_content)
    /\ (start_pdn # None /\ pc \in {"write_game_result", "done"} /\ bot_calls = 0) =>
          /\ get_move_list(board, current_turn) = <<>>
          /\ Len(move_history) > idx

C12_Witness ==
    /\ pc = "raised"
    /\ error.kind = "RuntimeError: already complete"
    /\ idx > 0
    /\ idx = Len(pdn_content)

\* C13: a seed token with neither "-" nor "x" makes the import fail with the
\* format error at that token; the token and all later tokens are not applied
\* to the board nor appended to move_history.
C13_ParseFailure ==
    /\ (start_pdn = "file" /\ Len(pdn_content) > idx
          /\ ~Contains(pdn_content[idx + 1], "-")
          /\ ~Contains(pdn_content[idx + 1], "x")) =>
          /\ pc = "raised"
          /\ error = Raise("ValueError: Invalid move format", None, 0, pdn_content[idx + 1])
    /\ (pc = "raised" /\ error.kind = "ValueError: Invalid move format") =>
          /\ ~Contains(error.move, "-") /\ ~Contains(error.move, "x")
          /\ error.move = pdn_content[idx + 1]
          /\ Len(pdn_content) = idx + 1
          /\ HistoryIsSeedPrefix
          /\ bot_calls = 0
          /\ idx = 0 => board = InitBoard

C13_Witness ==
    /\ pc = "raised"
    /\ error.kind = "ValueError: Invalid move format"
    /\ idx = 1
    /\ Len(move_history) = 1
    /\ board # InitBoard

\* C14: a fatal condition raised in a game is not caught by Game.run: the game
\* stays as it was when it raised, without result or GameResult; and it is
\* not caught by the controller: no GameResult is appended for that game, no
\* later game is started, no statistics are written, and the run stays
\* terminated.
C14_FatalPropagation ==
    /\ [](pc = "raised" =>
            /\ error.kind # None
            /\ result = None
            /\ game_result = NoGameResult)
    /\ [][pc = "raised" => UNCHANGED gameVars]_vars
    /\ [](\A i \in 1..Len(game_results) :
            /\ game_results[i].result \in {WHITE, BLACK, DRAW}
            /\ game_results[i].game_id = i)
    /\ [][(ctl_pc = "run_games" /\ game_id_counter' = game_id_counter + 1
              /\ Len(game_results') = Len(game_results)) =>
            /\ ctl_pc' = "raised"
            /\ ctl_error' = "raised by the game"
            /\ game_results' = game_results]_vars
    /\ [](ctl_pc = "raised" /\ ctl_error = "raised by the game" =>
            /\ Len(game_results) = game_id_counter - 1
            /\ game_result_map = <<>>)
    /\ [][ctl_pc = "raised" => UNCHANGED ctlVars]_vars

C14_Witness ==
    /\ ctl_pc = "raised"
    /\ ctl_error = "raised by the game"
    /\ game_id_counter = 2
    /\ Len(game_results) = 1
    /\ game_id_counter < Len(Schedule(mode, bot, bot_list, rounds))

\* Number of the pieces of `colour` on the grid b.
NumPieces(b, colour) ==
    Cardinality({cell \in DOMAIN b : b[cell] # EMPTY /\ PieceColour(b[cell]) = colour})

\* C15: when a move is applied (a bot ply or a seed token), if it removed a
\* piece or promoted, last_action_move becomes the new ply count, the mover's
\* capture tally grows by the number of pieces removed and the mover's king
\* tally by 1 on promotion; otherwise last_action_move and the four tallies
\* are unchanged.  The opponent's tallies never change.
C15_ActionBookkeeping ==
    [][Len(move_history') = Len(move_history) + 1 =>
         LET n == Len(move_history')
             move == move_history'[n]
             mover == PieceColour(board[move.start])
             removed == NumPieces(board, get_opposite(mover))
                           - NumPieces(board', get_opposite(mover))
             promoted == IsKing(board'[move.end]) /\ ~IsKing(board[move.start])
             kings == IF promoted THEN 1 ELSE 0
         IN  /\ removed >= 0
             /\ NumPieces(board', mover) = NumPieces(board, mover)
             /\ last_action_move' = IF removed > 0 \/ promoted THEN n ELSE last_action_move
             /\ IF mover = WHITE
                THEN /\ white_num_captures' = white_num_captures + removed
                     /\ white_kings_made' = white_kings_made + kings
                     /\ UNCHANGED <<black_num_captures, black_kings_made>>
                ELSE /\ black_num_captures' = black_num_captures + removed
                     /\ black_kings_made' = black_kings_made + kings
                     /\ UNCHANGED <<white_num_captures, white_kings_made>>]_vars

C15_Witness ==
    /\ start_pdn = "export"
    /\ pc = "import_pdn"
    /\ move_number > 0
    /\ last_action_move = move_number
    /\ move_history[move_number].removed # <<>>
    /\ black_num_captures = 1
    /\ white_kings_made = 1

\* C16: export_pdn emits one token per move of move_history, in the order of
\* the history, with one space between two tokens; the token of a move is
\* <start>x<end> if and only if its removed list is not empty and
\* <start>-<end> otherwise, start and end being the square numbers of the
\* move's cells; exporting changes neither move_history nor the board.
C16_ExportRendering ==
    /\ [](exported.pc # None =>
            LET h == exported.history
                c == exported.content
                n == Len(h)
            IN  /\ Len(c) = IF n = 0 THEN 0 ELSE 4 * n - 1
                /\ \A i \in 1..n :
                      /\ c[4 * i - 3] = Num(SquareOf(h[i].start))
                      /\ c[4 * i - 2] = Sep(IF h[i].removed # <<>> THEN "x" ELSE "-")
                      /\ c[4 * i - 1] = Num(SquareOf(h[i].end))
                      /\ i < n => c[4 * i] = Sep(" "))
    /\ [][(exported = NotExported /\ exported' # NotExported) =>
            /\ exported'.history = move_history
            /\ UNCHANGED <<board, move_history, current_turn, last_action_move,
                           tallies, pc, result, game_result>>]_vars

C16_Witness ==
    /\ start_pdn # "export"
    /\ pc = "done"
    /\ exported.pc = "done"
    /\ \E i \in 1..Len(move_history) : move_history[i].removed # <<>>
    /\ \E i \in 1..Len(move_history) : move_history[i].removed = <<>>
    /\ Len(exported.content) = 4 * Len(move_history) - 1

Measure(b) ==
    NumPieces(b, WHITE) + NumPieces(b, BLACK)
        + Cardinality({cell \in DOMAIN b : b[cell] # EMPTY /\ ~IsKing(b[cell])})

\* C18: a game whose bots always answer with an index of the move list ends:
\* every run of Game.run reaches a GameResult, unless the seed was rejected or
\* a bot answered out of range.  Every capture and every promotion uses up a
\* piece or a man of the finite board, and AUTO_DRAW_MOVECOUNT plies without
\* one end the game, which bounds the number of plies.
C18_Termination ==
    /\ <>(pc \in {"done", "raised"})
    /\ [](pc = "raised" /\ bot_calls > 0 =>
            /\ error.kind = "RuntimeError: bot invalid move"
            /\ \/ last_reply.idx < 0
               \/ last_reply.idx >= Len(get_move_list(board, current_turn)))
    /\ [](move_number <=
             AUTO_DRAW_MOVECOUNT * (Measure(InitBoard) - Measure(board) + 1))
    /\ [][last_action_move' # last_action_move =>
             Measure(board') < Measure(board)]_<<last_action_move, board>>

C18_Witness ==
    /\ pc = "done"
    /\ result = DRAW
    /\ bot_calls > AUTO_DRAW_MOVECOUNT
    /\ Measure(board) < Measure(InitBoard)

RECURSIVE LastSeedAction(_, _, _, _)
LastSeedAction(b, k, n, last) ==
    IF k > n THEN last
    ELSE LET move == move_history[k]
             p == b[move.start]
             promoted == ~IsKing(p) /\ move.end[1] = FarthestRow(PieceColour(p))
             captured == Contains(pdn_content[k], "x")
         IN  LastSeedAction(board_move_piece(b, move).board, k + 1, n,
                            IF captured \/ promoted THEN k ELSE last)

\* The seed has been replayed, in part or in whole, and no bot has played.
InReplay == start_pdn # None /\ bot_calls = 0 /\ pc \in {"import_pdn", "run", "make_move"}

PairingOf(k) ==
    IF mode = "all"
    THEN LET n == Len(bot_list)
             x == k \div (n - 1)
             rest == k % (n - 1)
             y == IF rest < x THEN rest ELSE rest + 1
         IN  [first |-> make_unique_bot_string(x, bot_list[x + 1]),
              second |-> make_unique_bot_string(y, bot_list[y + 1])]
    ELSE [first |-> make_unique_bot_string(-1, bot),
          second |-> make_unique_bot_string(k, bot_list[k + 1])]

\* The number of pairings of the run.
NumPairings ==
    IF mode = "all" THEN Len(bot_list) * (Len(bot_list) - 1) ELSE Len(bot_list)

\* The bot identities that play in the run.
Players ==
    {game_results[i].white_name : i \in 1..Len(game_results)}
        \cup {game_results[i].black_name : i \in 1..Len(game_results)}

\* C21: the game ids are 1, 2, 3, ... in the order the games are played, one
\* id per game started; the games come in blocks of 2 * rounds per pairing,
\* rounds 1..rounds in order, two games per round of which the first has the
\* first bot of the pairing as WHITE and the second has the colours swapped;
\* no game pairs a list entry with itself; and when all games are played there
\* are 2 * rounds games for every pairing and every bot has played WHITE as
\* often as BLACK.
C21_Scheduling ==
    /\ game_id_counter =
           Len(game_results) + (IF ctl_error = "raised by the game" THEN 1 ELSE 0)
    /\ \A i \in 1..Len(game_results) :
          LET game == game_results[i]
              pairing == PairingOf((i - 1) \div (2 * rounds))
          IN  /\ game.game_id = i
              /\ game.game_round = (((i - 1) \div 2) % rounds) + 1
              /\ IF i % 2 = 1
                 THEN /\ game.white_name = pairing.first
                      /\ game.black_name = pairing.second
                 ELSE /\ game.white_name = game_results[i - 1].black_name
                      /\ game.black_name = game_results[i - 1].white_name
                      /\ game.game_round = game_results[i - 1].game_round
              /\ game.white_name[2] # game.black_name[2]
              /\ mode = "all" => game.white_name[2] >= 0 /\ game.black_name[2] >= 0
    /\ ctl_pc \in {"write_game_results", "done"} =>
          /\ Len(game_results) = 2 * rounds * NumPairings
          /\ \A k \in Players :
                LET AsWhite(g) == g.white_name = k
                    AsBlack(g) == g.black_name = k
                IN  GamesWhere(AsWhite) = GamesWhere(AsBlack)

C21_Witness ==
    /\ ctl_pc = "done"
    /\ mode = "all"
    /\ Len(bot_list) = 2
    /\ bot_list[1] = bot_list[2]
    /\ Len(game_results) = 4
    /\ game_results[3].white_name = game_results[2].white_name
    /\ game_results[4].white_name = game_results[1].white_name

====
